---- MODULE Spec2Model ----
(***************************************************************************)
(* LLE Morphology V2.                                                      *)
(*                                                                         *)
(* Spec:    morpho of createLLEMorphologyV2 (morphology.v2.ts), step by    *)
(*          step (affix stripper, stem fix, span rebuild, scores), and     *)
(*          the BIO label loop buildSegmentationDataset (build_jsonl.ts)   *)
(*          runs on its result, for one word of the words array.           *)
(* SpecBIO: the standalone encoder toBIO (demo_fixes.ts) on spans of the   *)
(*          caller's choosing.                                             *)
(*                                                                         *)
(* A string is a sequence of one-character strings; JavaScript's 0-based   *)
(* half-open indices are kept in the state, and translated to TLA+'s       *)
(* 1-based sequences only inside slice, startsWith and setIndex.           *)
(***************************************************************************)
EXTENDS Integers, Sequences, FiniteSets, TLC

\* ------------------------------------------------------------------ bounds
\* An input is the concatenation of at most MaxChunks chunks of Chunks.
MaxChunks == 4

\* ------------------------------------------------------- string primitives
Min(a, b) == IF a < b THEN a ELSE b

Max(a, b) == IF a > b THEN a ELSE b

\* String.prototype.slice(a, b): negative indices count from the end, both
\* are clamped to [0, length], and an empty string comes back when a >= b.
slice(s, a, b) ==
  LET n    == Len(s)
      from == IF a < 0 THEN Max(n + a, 0) ELSE Min(a, n)
      to   == IF b < 0 THEN Max(n + b, 0) ELSE Min(b, n)
  IN  IF from < to THEN SubSeq(s, from + 1, to) ELSE << >>

\* String.prototype.startsWith(pre, pos): pos is clamped to [0, length] and
\* the whole of pre must lie inside the string.
startsWith(s, pre, pos) ==
  LET p == Min(Max(pos, 0), Len(s))
  IN  /\ p + Len(pre) <= Len(s)
      /\ SubSeq(s, p + 1, p + Len(pre)) = pre

UpperCase == <<"A","B","C","D","E","F","G","H","I","J","K","L","M",
               "N","O","P","Q","R","S","T","U","V","W","X","Y","Z">>

LowerCase == <<"a","b","c","d","e","f","g","h","i","j","k","l","m",
               "n","o","p","q","r","s","t","u","v","w","x","y","z">>

\* String.prototype.toLowerCase, character by character.
lowerChar(c) ==
  IF \E i \in 1..Len(UpperCase) : UpperCase[i] = c
    THEN LowerCase[CHOOSE i \in 1..Len(UpperCase) : UpperCase[i] = c]
    ELSE c

toLowerCase(s) == [i \in 1..Len(s) |-> lowerChar(s[i])]

WhiteSpace == {" ", "\t", "\n"}

\* String.prototype.trim: drops the white space at both ends, keeps it inside.
trim(s) ==
  LET keep == {i \in 1..Len(s) : s[i] \notin WhiteSpace}
  IN  IF keep = {} THEN << >>
      ELSE LET lo == CHOOSE i \in keep : \A j \in keep : i <= j
               hi == CHOOSE i \in keep : \A j \in keep : j <= i
           IN  SubSeq(s, lo, hi)

\* ------------------------------------------------------------ affix tables
morphemePatternsPrefixes ==
  << <<"c","o","u","n","t","e","r">>,
     <<"i","n","t","e","r">>,
     <<"t","r","a","n","s">>,
     <<"p","s","e","u","d","o">>,
     <<"p","r","o","t","o">>,
     <<"s","u","p","e","r">>,
     <<"m","u","l","t","i">>,
     <<"u","n","d","e","r">>,
     <<"o","v","e","r">>,
     <<"a","n","t","i">>,
     <<"a","u","t","o">>,
     <<"m","i","c","r","o">>,
     <<"m","a","c","r","o">>,
     <<"s","e","m","i">>,
     <<"s","u","b">>,
     <<"p","r","e">>,
     <<"r","e">>,
     <<"u","n">>,
     <<"d","i","s">>,
     <<"o","u","t">>,
     <<"u","p">>,
     <<"d","o","w","n">> >>

morphemePatternsSuffixes ==
  << <<"i","z","a","t","i","o","n">>,
     <<"a","t","i","o","n","a","l">>,
     <<"a","c","i","o","u","s">>,
     <<"i","c","a","l","l","y">>,
     <<"f","u","l","n","e","s","s">>,
     <<"l","e","s","s","l","y">>,
     <<"a","t","i","o","n","s">>,
     <<"a","b","i","l","i","t","y">>,
     <<"a","t","i","o","n">>,
     <<"s","i","o","n">>,
     <<"n","e","s","s">>,
     <<"m","e","n","t">>,
     <<"a","b","l","e">>,
     <<"i","b","l","e">>,
     <<"w","a","r","d">>,
     <<"w","i","s","e">>,
     <<"s","h","i","p">>,
     <<"h","o","o","d">>,
     <<"d","o","m">>,
     <<"i","s","m">>,
     <<"i","s","t">>,
     <<"i","z","e">>,
     <<"i","s","e">>,
     <<"f","y">>,
     <<"a","t","e">>,
     <<"e","n","t">>,
     <<"a","n","t">>,
     <<"i","v","e">>,
     <<"o","u","s">>,
     <<"e","o","u","s">>,
     <<"i","o","u","s">>,
     <<"a","l">>,
     <<"i","c">>,
     <<"i","c","a","l">>,
     <<"a","r">>,
     <<"a","r","y">>,
     <<"i","n","g">>,
     <<"e","d">>,
     <<"e","r">>,
     <<"e","s","t">>,
     <<"l","y">>,
     <<"s">> >>

RECURSIVE longestOf(_)
longestOf(t) == IF t = << >> THEN 0 ELSE Max(Len(Head(t)), longestOf(Tail(t)))

RECURSIVE byLengthFrom(_, _)
byLengthFrom(t, n) ==
  IF n = 0 THEN << >>
  ELSE SelectSeq(t, LAMBDA a : Len(a) = n) \o byLengthFrom(t, n - 1)

RECURSIVE byLengthUpTo(_, _)
byLengthUpTo(t, n) ==
  IF n = 0 THEN << >>
  ELSE byLengthUpTo(t, n - 1) \o SelectSeq(t, LAMBDA a : Len(a) = n)

\* Mutant of sortLongestFirst: the comparator reversed, a.length - b.length.
sortShortestFirst(t) == byLengthUpTo(t, longestOf(t))

\* [...table].sort((a, b) => b.length - a.length): Array.prototype.sort is
\* stable, so entries of one length keep their declaration order.
sortLongestFirst(t) == byLengthFrom(t, longestOf(t))

\* createLLEMorphologyV2(): the two tables are sorted once, longest first,
\* and held as constants of the closure that morpho reads.
prefixes == sortLongestFirst(morphemePatternsPrefixes)

suffixes == sortLongestFirst(morphemePatternsSuffixes)

\* ------------------------------------------------------------------ inputs
\* Raw inputs are built from chunks that reach the table entries "un",
\* "under", "re", "ing", "ness", "er" and "s", a root ending in "e", upper
\* case and white space.
Chunks ==
  { <<"u","n">>, <<"R","e">>, <<"e">>, <<"d","e","r">>,
    <<"n","e","s","s">>, <<"i","n","g">>, <<" ">> }

RECURSIVE InputsOf(_)
InputsOf(n) ==
  IF n = 0 THEN { << >> }
  ELSE LET shorter == InputsOf(n - 1)
       IN  shorter \cup { w \o c : w \in shorter, c \in Chunks }

Inputs == InputsOf(MaxChunks)

\* ------------------------------------------------------------------- state
VARIABLES
  pc,             \* where the current call stands
  original,       \* morpho: the input as given
  word,           \* morpho: the normalized word
  foundPrefixes,  \* morpho: prefixes stripped so far, in strip order
  foundSuffixes,  \* morpho: suffixes stripped so far, in word order
  consumedStart,  \* morpho: left cursor (rootStart)
  consumedEnd,    \* morpho: right cursor (rootEnd)
  root,           \* morpho: the root slice, then the repaired root
  result,         \* morpho: the returned Result
  labels,         \* buildSegmentationDataset: the example's label array
  bioWord,        \* toBIO: the word argument
  bioSpans,       \* toBIO: the spans argument
  bioResult,      \* toBIO: how the call ended, and the labels it returned
  memo,           \* the first analysis of a run of calls, kept to compare
  loopPc,         \* runLoop: where the background loop stands
  running,        \* runLoop: the flag the while loop tests
  render,         \* runLoop: whether a render callback was passed
  updates,        \* how many times update has been invoked
  stopCalled,     \* whether control.stop() has been called
  stoppedBy,      \* who called it first: "update", "caller" or "nobody"
  updatesAtStop,  \* the value of updates at the first stop() call
  renders,        \* how many times render has been invoked
  inFlight,       \* the callbacks invoked and not yet settled
  batchPc,        \* processWordBatch: where the call stands
  rawBatch,       \* processWordBatch: the argument
  records,        \* processWordBatch: the records pushed so far
  batchIndex      \* processWordBatch: how many entries the loop has taken

vars == << pc, original, word, foundPrefixes, foundSuffixes, consumedStart,
           consumedEnd, root, result, labels, bioWord, bioSpans, bioResult,
           memo, loopPc, running, render, updates, stopCalled, stoppedBy,
           updatesAtStop, renders, inFlight, batchPc, rawBatch, records,
           batchIndex >>

bioVars == << bioWord, bioSpans, bioResult >>

seqVars == << memo >>

loopVars == << loopPc, running, render, updates, stopCalled, stoppedBy,
              updatesAtStop, renders, inFlight >>

batchVars == << batchPc, rawBatch, records, batchIndex >>

morphoLocals == << original, word, foundPrefixes, foundSuffixes,
                   consumedStart, consumedEnd, root >>

NoMemo ==
  [ set |-> FALSE, original |-> << >>, result |-> << >>, between |-> FALSE ]

NoResult ==
  [ original |-> << >>, word |-> << >>, prefixes |-> << >>, root |-> << >>,
    suffixes |-> << >>, morphemes |-> << >>, complexity |-> 0,
    confidence |-> [num |-> 0, den |-> 1] ]

\* ------------------------------------------------------------ stem repair
ING == <<"i","n","g">>

\* The index of the first "e" of stem from index i on; 0 when there is none.
RECURSIVE firstE(_, _)
firstE(stem, i) ==
  IF i > Len(stem) THEN 0
  ELSE IF stem[i] = "e" THEN i
  ELSE firstE(stem, i + 1)

\* Mutant of minimalStemFix: stem.replace(/e/, ""), the anchor left out, so
\* the first "e" of the stem goes.
minimalStemFixFirstE(stem, lastSuffix) ==
  IF lastSuffix = ING /\ Len(stem) > 0 /\ stem[Len(stem)] = "e"
    THEN LET k == firstE(stem, 1)
         IN  SubSeq(stem, 1, k - 1) \o SubSeq(stem, k + 1, Len(stem))
    ELSE stem

\* if (lastSuffix === "ing" && /e$/.test(stem)) return stem.replace(/e$/, "")
minimalStemFix(stem, lastSuffix) ==
  IF lastSuffix = ING /\ Len(stem) > 0 /\ stem[Len(stem)] = "e"
    THEN SubSeq(stem, 1, Len(stem) - 1)
    ELSE stem

\* ------------------------------------------------------------- affix scans
\* Mutant of prefixMatches: word.startsWith(pre), the position left out.
prefixMatchesAtZero(pre) == startsWith(word, pre, 0)

\* for (const pre of prefixes) if (word.startsWith(pre, consumedStart)) ...
prefixMatches(pre) == startsWith(word, pre, consumedStart)

\* Mutant of suffixMatches: the minimum-root test left out.
suffixMatchesUnguarded(suf) ==
  LET startIdx == consumedEnd - Len(suf)
  IN  /\ startIdx >= consumedStart
      /\ slice(word, startIdx, consumedEnd) = suf

\* const startIdx = consumedEnd - suf.length;
\* if (startIdx > consumedStart + 1
\*     && word.slice(startIdx, consumedEnd) === suf)
suffixMatches(suf) ==
  LET startIdx == consumedEnd - Len(suf)
  IN  /\ startIdx > consumedStart + 1
      /\ slice(word, startIdx, consumedEnd) = suf

\* The index of the entry a for-of scan with break stops at, looking from
\* index i on; 0 when the scan runs off the end of the table.
RECURSIVE prefixScanFrom(_)
prefixScanFrom(i) ==
  IF i > Len(prefixes) THEN 0
  ELSE IF prefixMatches(prefixes[i]) THEN i
  ELSE prefixScanFrom(i + 1)

RECURSIVE suffixScanFrom(_)
suffixScanFrom(i) ==
  IF i > Len(suffixes) THEN 0
  ELSE IF suffixMatches(suffixes[i]) THEN i
  ELSE suffixScanFrom(i + 1)

firstPrefix == prefixScanFrom(1)

firstSuffix == suffixScanFrom(1)

\* Mutant of unshift: the suffix is pushed at the back, which keeps the
\* suffixes in strip order.
unshiftAsPush(list, suf) == Append(list, suf)

\* foundSuffixes.unshift(suf)
unshift(list, suf) == << suf >> \o list

\* ------------------------------------------------------------------- Init
\* The state before morpho is called.
Init ==
  /\ pc = "idle"
  /\ original = << >>
  /\ word = << >>
  /\ foundPrefixes = << >>
  /\ foundSuffixes = << >>
  /\ consumedStart = 0
  /\ consumedEnd = 0
  /\ root = << >>
  /\ result = NoResult
  /\ labels = << >>
  /\ bioWord = << >>
  /\ bioSpans = << >>
  /\ bioResult = [threw |-> FALSE, labels |-> << >>]
  /\ memo = NoMemo
  /\ loopPc = "notStarted"
  /\ running = FALSE
  /\ render = FALSE
  /\ updates = 0
  /\ stopCalled = FALSE
  /\ stoppedBy = "nobody"
  /\ updatesAtStop = 0
  /\ renders = 0
  /\ inFlight = { }
  /\ batchPc = "idle"
  /\ rawBatch = << >>
  /\ records = << >>
  /\ batchIndex = 0

\* ---------------------------------------------------------------- morpho
\* Mutant of morphoEntry: the two found lists are hoisted out of morpho
\* into the closure of createLLEMorphologyV2, so they are not emptied.
morphoEntryHoisted(input) ==
  /\ original' = input
  /\ word' = trim(toLowerCase(input))
  /\ consumedStart' = 0
  /\ pc' = "prefixScan"
  /\ UNCHANGED << foundPrefixes, foundSuffixes, consumedEnd, root, result,
                  labels, bioVars, seqVars, loopVars, batchVars >>

\* morpho(input): normalization and the locals' initial values.
morphoEntry(input) ==
  /\ original' = input
  /\ word' = trim(toLowerCase(input))
  /\ foundPrefixes' = << >>
  /\ foundSuffixes' = << >>
  /\ consumedStart' = 0
  /\ pc' = "prefixScan"
  /\ UNCHANGED << consumedEnd, root, result, labels, bioVars,
                  seqVars, loopVars, batchVars >>

Call ==
  /\ pc = "idle"
  /\ \E input \in Inputs : morphoEntry(input)

\* One pass of the prefix while loop that finds a table entry.
PrefixStrip ==
  /\ pc = "prefixScan"
  /\ firstPrefix # 0
  /\ LET pre == prefixes[firstPrefix]
     IN  /\ foundPrefixes' = Append(foundPrefixes, pre)
         /\ consumedStart' = consumedStart + Len(pre)
  /\ UNCHANGED << pc, original, word, foundSuffixes,
                  consumedEnd, root, result, labels, bioVars,
                  seqVars, loopVars, batchVars >>

\* The pass that finds none: the loop ends and the suffix scan is set up.
PrefixEnd ==
  /\ pc = "prefixScan"
  /\ firstPrefix = 0
  /\ consumedEnd' = Len(word)
  /\ pc' = "suffixScan"
  /\ UNCHANGED << original, word, foundPrefixes,
                  foundSuffixes, consumedStart, root, result, labels, bioVars,
                  seqVars, loopVars, batchVars >>

\* One pass of the suffix while loop that finds a table entry.
SuffixStrip ==
  /\ pc = "suffixScan"
  /\ firstSuffix # 0
  /\ LET suf == suffixes[firstSuffix]
     IN  /\ foundSuffixes' = unshift(foundSuffixes, suf)
         /\ consumedEnd' = consumedEnd - Len(suf)
  /\ UNCHANGED << pc, original, word, foundPrefixes,
                  consumedStart, root, result, labels, bioVars,
                  seqVars, loopVars, batchVars >>

\* The pass that finds none: the loop ends and the root is sliced out.
SuffixEnd ==
  /\ pc = "suffixScan"
  /\ firstSuffix = 0
  /\ root' = slice(word, consumedStart, consumedEnd)
  /\ pc' = "stemFix"
  /\ UNCHANGED << original, word, foundPrefixes,
                  foundSuffixes, consumedStart, consumedEnd, result, labels,
                  bioVars, seqVars, loopVars, batchVars >>

\* Mutant of lastSuf: foundSuffixes[0] ?? "", the suffix next to the root.
lastSufAdjacent ==
  IF foundSuffixes = << >> THEN << >> ELSE foundSuffixes[1]

\* const lastSuf = foundSuffixes[foundSuffixes.length - 1] ?? ""
lastSuf ==
  IF foundSuffixes = << >> THEN << >> ELSE foundSuffixes[Len(foundSuffixes)]

\* consumedEnd -= delta;
\* if (consumedEnd < consumedStart) consumedEnd = consumedStart
adjustedEnd(delta) ==
  IF consumedEnd - delta < consumedStart THEN consumedStart
                                         ELSE consumedEnd - delta

\* The stem fix and, when it changed the root, the cursor adjustment.
StemFix ==
  /\ pc = "stemFix"
  /\ LET fixedRoot == minimalStemFix(root, lastSuf)
     IN  IF fixedRoot # root
           THEN /\ root' = fixedRoot
                /\ consumedEnd' = adjustedEnd(Len(root) - Len(fixedRoot))
           ELSE UNCHANGED << root, consumedEnd >>
  /\ pc' = "assemble"
  /\ UNCHANGED << original, word, foundPrefixes,
                  foundSuffixes, consumedStart, result, labels, bioVars,
                  seqVars, loopVars, batchVars >>

\* for (const t of texts) { push({type, text: t, start: cursor,
\*                               end: cursor + t.length}); cursor += t.length }
RECURSIVE spansOf(_, _, _)
spansOf(type, texts, cursor) ==
  IF texts = << >> THEN << >>
  ELSE << [ type  |-> type, text |-> Head(texts),
            start |-> cursor, end |-> cursor + Len(Head(texts)) ] >>
       \o spansOf(type, Tail(texts), cursor + Len(Head(texts)))

RECURSIVE totalLength(_)
totalLength(texts) ==
  IF texts = << >> THEN 0 ELSE Len(Head(texts)) + totalLength(Tail(texts))

\* Mutant of rootSpan: the span keeps the boundaries the stripper found,
\* whatever the stem fix did to the root string.
rootSpanCarried ==
  [ type  |-> "root", text |-> root, start |-> consumedStart,
    end   |-> Len(word) - totalLength(foundSuffixes) ]

\* The root span: it starts where the prefix spans end and is as long as
\* the (repaired) root string.
rootSpan ==
  LET rootStart == totalLength(foundPrefixes)
      rootEnd   == rootStart + Len(root)
  IN  [ type |-> "root", text |-> root, start |-> rootStart, end |-> rootEnd ]

\* Mutant of rebuildSpans: the suffix spans start at the boundary the
\* stripper found instead of at the end of the root span.
rebuildSpansCarried ==
  spansOf("prefix", foundPrefixes, 0)
    \o << rootSpan >>
    \o spansOf("suffix", foundSuffixes, Len(word) - totalLength(foundSuffixes))

\* Mutant of rebuildSpans: an empty root gets no span.
rebuildSpansSkipEmptyRoot ==
  spansOf("prefix", foundPrefixes, 0)
    \o (IF root = << >> THEN << >> ELSE << rootSpan >>)
    \o spansOf("suffix", foundSuffixes, rootSpan.end)

\* The spans rebuilt from the strings, cursor walking from 0.
rebuildSpans ==
  spansOf("prefix", foundPrefixes, 0)
    \o << rootSpan >>
    \o spansOf("suffix", foundSuffixes, rootSpan.end)

\* const complexity = foundPrefixes.length + foundSuffixes.length
complexityOf(pre, suf) == Len(pre) + Len(suf)

\* Mutant of confidenceOf: the quotient upside down, (1 + complexity) / 1.
confidenceOfInverted(complexity) == [ num |-> 1 + complexity, den |-> 1 ]

\* Mutant of confidenceOf: 1 / Math.max(1, complexity).
confidenceOfNoOffset(complexity) == [ num |-> 1, den |-> Max(1, complexity) ]

\* const confidence = 1 / (1 + complexity), kept as the exact fraction
confidenceOf(complexity) == [ num |-> 1, den |-> 1 + complexity ]

\* The span rebuild, the two scores and the returned Result.
Return ==
  /\ pc = "assemble"
  /\ LET complexity == complexityOf(foundPrefixes, foundSuffixes)
     IN  result' = [ original   |-> original,
                     word       |-> word,
                     prefixes   |-> foundPrefixes,
                     root       |-> root,
                     suffixes   |-> foundSuffixes,
                     morphemes  |-> rebuildSpans,
                     complexity |-> complexity,
                     confidence |-> confidenceOf(complexity) ]
  /\ pc' = "done"
  /\ UNCHANGED << morphoLocals, labels, bioVars, seqVars, loopVars, batchVars >>

\* ------------------------------------------------ buildSegmentationDataset
BIO_TAGS ==
  << "O", "B-PREFIX", "I-PREFIX", "B-ROOT", "I-ROOT", "B-SUFFIX",
       "I-SUFFIX" >>

\* An index an array assignment skipped over.
Hole == "<empty>"

\* Mutant of tagOf: the type name cut to three letters.
tagOfTruncated(type) ==
  IF type = "prefix" THEN "PRE"
  ELSE IF type = "root" THEN "ROO"
  ELSE "SUF"

\* if (m.type === "prefix") prefix = "PREFIX"; else if (m.type === "root") ...
tagOf(type) ==
  IF type = "prefix" THEN "PREFIX"
  ELSE IF type = "root" THEN "ROOT"
  ELSE "SUFFIX"

\* labels[i] = v on a JavaScript array: an index at or past the length
\* grows the array, leaving holes in between; a negative index names a
\* property of the object and leaves the elements and the length alone.
setIndex(arr, i, v) ==
  IF i < 0 THEN arr
  ELSE IF i < Len(arr) THEN [arr EXCEPT ![i + 1] = v]
  ELSE arr \o [k \in 1..(i - Len(arr)) |-> Hole] \o << v >>

\* Mutant of lastIndex: the loop runs while i <= m.end.
lastIndexInclusive(m) == m.end

\* for (let i = m.start; i < m.end; i++): the last index written
lastIndex(m) == m.end - 1

\* Mutant of writeSpan: the test is i === 0, so only a span that starts
\* the word gets a B- label.
RECURSIVE writeSpanBeginAtZero(_, _, _)
writeSpanBeginAtZero(arr, m, i) ==
  IF i > m.end - 1 THEN arr
  ELSE writeSpanBeginAtZero(
         setIndex(arr, i, (IF i = 0 THEN "B-" ELSE "I-") \o tagOf(m.type)),
         m, i + 1)

\* the loop body from index i on: B- at m.start, I- after it
RECURSIVE writeSpan(_, _, _)
writeSpan(arr, m, i) ==
  IF i > lastIndex(m) THEN arr
  ELSE writeSpan(setIndex(arr, i, (IF i = m.start THEN "B-" ELSE "I-")
                                    \o tagOf(m.type)),
                 m, i + 1)

RECURSIVE writeSpans(_, _)
writeSpans(arr, ms) ==
  IF ms = << >> THEN arr
  ELSE writeSpans(writeSpan(arr, Head(ms), Head(ms).start), Tail(ms))

\* Array(result.word.length).fill("O"), then one pass over result.morphemes
labelsOf(res) == writeSpans([i \in 1..Len(res.word) |-> "O"], res.morphemes)

\* One iteration of the loop over words, after morpho(word) has returned:
\* the example's labels are built.
BuildLabels ==
  /\ pc = "done"
  /\ labels' = labelsOf(result)
  /\ pc' = "pushed"
  /\ UNCHANGED << morphoLocals, result, bioVars, seqVars, loopVars, batchVars >>

\* ------------------------------------------------------------------ toBIO
\* The standalone encoder of the demo scripts, called with spans of the
\* caller's choosing: up to MaxSpans spans whose start and end range over
\* -1 .. MaxBioLen + 1, on a word of at most MaxBioLen characters.
MaxBioLen == 2

MaxSpans == 1

BioWords == { [i \in 1..n |-> "a"] : n \in 0..MaxBioLen }

SpanTypes == {"prefix", "root", "suffix"}

SuppliedSpan ==
  [ type : SpanTypes, start : -1..(MaxBioLen + 1), end : -1..(MaxBioLen + 1) ]

RECURSIVE SpanListsOf(_)
SpanListsOf(n) ==
  IF n = 0 THEN { << >> }
  ELSE LET shorter == SpanListsOf(n - 1)
       IN  shorter \cup { Append(l, sp) : l \in shorter, sp \in SuppliedSpan }

SuppliedSpans == SpanListsOf(MaxSpans)

\* function spanToTag(type): "PRE" | "ROOT" | "SUF"
spanToTag(type) ==
  IF type = "prefix" THEN "PRE"
  ELSE IF type = "root" THEN "ROOT"
  ELSE "SUF"

\* for (let i = s.start + 1; i < s.end && i < L; i++) labels[i] = `I-${tag}`
RECURSIVE insideLabels(_, _, _, _)
insideLabels(arr, sp, i, L) ==
  IF i < sp.end /\ i < L
    THEN insideLabels(setIndex(arr, i, "I-" \o spanToTag(sp.type)),
                      sp, i + 1, L)
    ELSE arr

\* if (s.start >= 0 && s.start < L) labels[s.start] = `B-${tag}`
beginLabel(arr, sp, L) ==
  IF sp.start >= 0 /\ sp.start < L
    THEN setIndex(arr, sp.start, "B-" \o spanToTag(sp.type))
    ELSE arr

RECURSIVE bioLoop(_, _, _)
bioLoop(arr, spans, L) ==
  IF spans = << >> THEN arr
  ELSE bioLoop(insideLabels(beginLabel(arr, Head(spans), L),
                            Head(spans), Head(spans).start + 1, L),
               Tail(spans), L)

\* toBIO(word, spans): the function has no throw statement, it returns the
\* label array whatever the spans are.
toBIO(w, spans) ==
  [ threw  |-> FALSE,
    labels |-> bioLoop([i \in 1..Len(w) |-> "O"], spans, Len(w)) ]

toBIOCall(w, spans) ==
  /\ bioWord' = w
  /\ bioSpans' = spans
  /\ bioResult' = toBIO(w, spans)
  /\ pc' = "bio"
  /\ UNCHANGED << morphoLocals, result, labels, seqVars, loopVars, batchVars >>

ToBIO ==
  /\ pc = "idle"
  /\ \E w \in BioWords, spans \in SuppliedSpans : toBIOCall(w, spans)

\* ------------------------------------------------------------------- Spec
Next ==
  \/ Call
  \/ PrefixStrip
  \/ PrefixEnd
  \/ SuffixStrip
  \/ SuffixEnd
  \/ StemFix
  \/ Return
  \/ BuildLabels

Spec == Init /\ [][Next]_vars

NextBIO == ToBIO

SpecBIO == Init /\ [][NextBIO]_vars

\* The words the morphology tests analyze.
morphologyTestWords ==
  { << "u", "n", "h", "a", "p", "p", "y" >>,
    << "r", "u", "n", "n", "i", "n", "g" >>,
    << "u", "n", "h", "a", "p", "p", "i", "n", "e", "s", "s" >>,
    << "i", "n", "t", "e", "r", "n", "a", "t", "i", "o", "n", "a", "l",
       "i", "z", "a", "t", "i", "o", "n" >>,
    << "r", "e", "a", "c", "t", "i", "v", "a", "t", "i", "n", "g" >>,
    << "c", "a", "t" >>,
    << "c", "o", "u", "n", "t", "e", "r", "p", "r", "o", "d", "u", "c",
       "t", "i", "v", "e" >>,
    << "r", "e" >>,
    << "p", "r", "e", "p", "r", "o", "c", "e", "s", "s", "i", "n", "g" >>,
    << "c", "o", "u", "n", "t", "e", "r", "i", "n", "t", "e", "r", "n",
       "a", "t", "i", "o", "n", "a", "l", "i", "z", "a", "t", "i", "o", "n"
       >>,
    << >>,
    << "U", "N", "H", "A", "P", "P", "Y" >> }

\* The words the dataset tests build label sequences for.
datasetTestWords ==
  { << "r", "u", "n", "n", "i", "n", "g" >>,
    << "u", "n", "h", "a", "p", "p", "y" >>,
    << "i", "n", "t", "e", "r", "n", "a", "t", "i", "o", "n", "a", "l",
       "i", "z", "a", "t", "i", "o", "n" >>,
    << "c", "a", "t" >>,
    << "w", "a", "l", "k", "e", "d" >>,
    << "f", "a", "s", "t", "e", "r" >>,
    << "b", "e", "a", "u", "t", "i", "f", "u", "l" >>,
    << "r", "e", "a", "c", "t", "i", "v", "a", "t", "e" >> }

TestWords == morphologyTestWords \cup datasetTestWords

\* A test calls morpho on one of its words.
CallTest ==
  /\ pc = "idle"
  /\ \E input \in TestWords : morphoEntry(input)

\* The runs of the test suites: each word analyzed and then encoded.
NextTests ==
  \/ CallTest
  \/ PrefixStrip
  \/ PrefixEnd
  \/ SuffixStrip
  \/ SuffixEnd
  \/ StemFix
  \/ Return
  \/ BuildLabels

SpecTests == Init /\ [][NextTests]_vars

\* A run of calls on one analyzer: buildSegmentationDataset over a list of
\* words, each a concatenation of at most MaxSeqChunks chunks.
MaxSeqChunks == 2

SeqChunks == { <<"u","n">>, <<"s","e","e">>, <<"i","n","g">> }

RECURSIVE SeqInputsOf(_)
SeqInputsOf(n) ==
  IF n = 0 THEN { << >> }
  ELSE LET shorter == SeqInputsOf(n - 1)
       IN  shorter \cup { w \o c : w \in shorter, c \in SeqChunks }

SeqInputs == SeqInputsOf(MaxSeqChunks)

CallSeq ==
  /\ pc = "idle"
  /\ \E input \in SeqInputs : morphoEntry(input)

\* The end of one iteration of for (const word of words): the example is
\* pushed and the loop takes the next word. What the finished call left in
\* the locals of morpho stays until the next call writes it. memo keeps the
\* first analysis of the run and notes whether another word came after it.
NextWord ==
  /\ pc = "pushed"
  /\ memo' = IF memo.set
             THEN [memo EXCEPT !.between = @ \/ original # memo.original]
             ELSE [ set |-> TRUE, original |-> original, result |-> result,
                    between |-> FALSE ]
  /\ pc' = "idle"
  /\ result' = NoResult
  /\ labels' = << >>
  /\ UNCHANGED << morphoLocals, bioVars, loopVars, batchVars >>

NextSeq ==
  \/ CallSeq
  \/ PrefixStrip
  \/ PrefixEnd
  \/ SuffixStrip
  \/ SuffixEnd
  \/ StemFix
  \/ Return
  \/ BuildLabels
  \/ NextWord

SpecSeq == Init /\ [][NextSeq]_vars

\* --------------------------------------------------------------- runLoop
\* The background loop of runLoop, one action per stretch of code between
\* two awaits. The model follows the loop for at most MaxFrames invocations
\* of update.
MaxFrames == 5

analysisVars == << pc, morphoLocals, result, labels, bioVars, seqVars >>

\* Mutant of loopContinues: while (true).
loopContinuesAlways == TRUE

\* while (running)
loopContinues == running

\* Mutant of stop: the arrow function's body sets nothing.
stopIgnored == running

\* stop: () => { running = false; }  -- the value running has afterwards
stop == FALSE

\* Mutant of afterAwait: the call is made without await, the loop goes on
\* while the callback's promise is pending.
afterNoAwait(callback) == inFlight

\* await callback(...): the loop resumes when the callback's promise has
\* resolved, so the callback is no longer in flight.
afterAwait(callback) == inFlight \ {callback}

\* The top of the while loop: another frame begins with a call of update,
\* or the loop is left. now is the set of callbacks in flight at this point.
loopTop(now) ==
  IF loopContinues
  THEN /\ updates < MaxFrames
       /\ updates' = updates + 1
       /\ inFlight' = now \cup {"update"}
       /\ loopPc' = "awaitUpdate"
  ELSE /\ loopPc' = "exited"
       /\ inFlight' = now
       /\ UNCHANGED updates

\* The throttle: wait > 0 awaits the timer, wait = 0 goes straight on.
throttle(now) ==
  \/ /\ loopPc' = "sleeping"
     /\ inFlight' = now
     /\ UNCHANGED updates
  \/ loopTop(now)

\* runLoop is called: running is set, control is built, and the background
\* function runs up to its first await, which is the first call of update.
RunLoop ==
  /\ loopPc = "notStarted"
  /\ \E r \in BOOLEAN : render' = r
  /\ running' = TRUE
  /\ updates' = 1
  /\ inFlight' = {"update"}
  /\ loopPc' = "awaitUpdate"
  /\ UNCHANGED << stopCalled, stoppedBy, updatesAtStop, renders,
                  analysisVars, batchVars >>

\* The promise of update resolves: render is called if there is one,
\* otherwise the throttle follows.
UpdateResolved ==
  /\ loopPc = "awaitUpdate"
  /\ LET now == afterAwait("update")
     IN  IF render
         THEN /\ loopPc' = "awaitRender"
              /\ renders' = renders + 1
              /\ inFlight' = now \cup {"render"}
              /\ UNCHANGED updates
         ELSE /\ throttle(now)
              /\ UNCHANGED renders
  /\ UNCHANGED << running, render, stopCalled, stoppedBy, updatesAtStop,
                  analysisVars, batchVars >>

\* The promise of render resolves.
RenderResolved ==
  /\ loopPc = "awaitRender"
  /\ throttle(afterAwait("render"))
  /\ UNCHANGED << running, render, stopCalled, stoppedBy, updatesAtStop,
                  renders, analysisVars, batchVars >>

\* The timer of sleep(wait) fires.
SleepFired ==
  /\ loopPc = "sleeping"
  /\ loopTop(inFlight)
  /\ UNCHANGED << running, render, stopCalled, stoppedBy, updatesAtStop,
                  renders, analysisVars, batchVars >>

\* update or render throws or rejects: the background function ends with
\* the rejection, nothing catches it.
Rejected ==
  /\ loopPc \in {"awaitUpdate", "awaitRender"}
  /\ inFlight' = inFlight \ { IF loopPc = "awaitUpdate" THEN "update"
                                                       ELSE "render" }
  /\ loopPc' = "failed"
  /\ UNCHANGED << running, render, updates, stopCalled, stoppedBy,
                  updatesAtStop, renders, analysisVars, batchVars >>

\* control.stop() is called, by update while its invocation is under way or
\* by the caller of runLoop at any await of the loop.
Stop ==
  /\ loopPc \in {"awaitUpdate", "awaitRender", "sleeping"}
  /\ \E who \in {"update", "caller"} :
       /\ who = "update" => loopPc = "awaitUpdate"
       /\ stoppedBy' = IF stopCalled THEN stoppedBy ELSE who
  /\ running' = stop
  /\ stopCalled' = TRUE
  /\ updatesAtStop' = IF stopCalled THEN updatesAtStop ELSE updates
  /\ UNCHANGED << loopPc, render, updates, renders, inFlight,
                  analysisVars, batchVars >>

NextLoop ==
  \/ RunLoop
  \/ UpdateResolved
  \/ RenderResolved
  \/ SleepFired
  \/ Rejected
  \/ Stop

SpecLoop == Init /\ [][NextLoop]_vars

\* Every update and render promise that does not reject resolves, and the
\* throttle timer fires.
FairSpecLoop ==
  /\ SpecLoop
  /\ WF_vars(UpdateResolved)
  /\ WF_vars(RenderResolved)
  /\ WF_vars(SleepFired)

\* ------------------------------------------------------- processWordBatch
\* The telemetry ingestion of the word engine. A batch is a sequence of at
\* most MaxBatch raw strings.
MaxBatch == 2

\* Values as JSON.parse returns them. A field of an object is kept as its
\* type and, for a string or a number, its content.
Absent == [ t |-> "absent", s |-> << >>, n |-> 0 ]

JString(chars) == [ t |-> "string", s |-> chars, n |-> 0 ]

JNumber(k) == [ t |-> "number", s |-> << >>, n |-> k ]

JNull == [ t |-> "null", s |-> << >>, n |-> 0 ]

\* metadata: its type, and of an object its fields tags (the elements when
\* it is an array), category and type.
NoMetadata ==
  [ t |-> "absent", tagsIsArray |-> FALSE, tags |-> << >>,
    category |-> Absent, type |-> Absent ]

NullMetadata == [ NoMetadata EXCEPT !.t = "null" ]

EmptyMetadata == [ NoMetadata EXCEPT !.t = "object" ]

\* A parsed value: its type, and of an object the four fields a WordRecord
\* is built from.
JValue(type) ==
  [ t |-> type, word |-> Absent, context |-> Absent, timestamp |-> Absent,
    metadata |-> NoMetadata ]

JObject(w, c, ts, md) ==
  [ t |-> "object", word |-> w, context |-> c, timestamp |-> ts,
    metadata |-> md ]

\* The raw strings the batches are made of: JSON texts of every kind of
\* value, and texts that are not JSON.
RawStrings ==
  { "{\"word\":\" running \"}",
    "{\"word\":\"Kindness\",\"context\":\"c\",\"timestamp\":7,\"metadata\":{\"tags\":[\"x\",1,\"x\"],\"category\":\"n\"}}",
    "{\"word\":\"cat\",\"metadata\":null}",
    "{\"word\":\"  \"}",
    "{\"word\":5}",
    "{\"context\":\"c\"}",
    "[1]",
    "null",
    "7",
    "\"cat\"",
    "true",
    "{\"word\":",
    "",
    "{'word':'cat'}" }

\* JSON.parse(input): the value of a JSON text; a text that is not JSON
\* makes it throw a SyntaxError.
JSONparse(input) ==
  CASE input = "{\"word\":\" running \"}"
         -> [ ok |-> TRUE, value |->
                JObject(JString(<<" ","r","u","n","n","i","n","g"," ">>), Absent, Absent, NoMetadata) ]
    [] input = "{\"word\":\"Kindness\",\"context\":\"c\",\"timestamp\":7,\"metadata\":{\"tags\":[\"x\",1,\"x\"],\"category\":\"n\"}}"
         -> [ ok |-> TRUE, value |->
                JObject(JString(<<"K","i","n","d","n","e","s","s">>), JString(<<"c">>), JNumber(7),
                   [ EmptyMetadata EXCEPT
                       !.tagsIsArray = TRUE,
                       !.tags = << JString(<<"x">>), JNumber(1),
                                   JString(<<"x">>) >>,
                       !.category = JString(<<"n">>) ]) ]
    [] input = "{\"word\":\"cat\",\"metadata\":null}"
         -> [ ok |-> TRUE, value |->
                JObject(JString(<<"c","a","t">>), Absent, Absent, NullMetadata) ]
    [] input = "{\"word\":\"  \"}"
         -> [ ok |-> TRUE, value |->
                JObject(JString(<<" "," ">>), Absent, Absent, NoMetadata) ]
    [] input = "{\"word\":5}"
         -> [ ok |-> TRUE, value |->
                JObject(JNumber(5), Absent, Absent, NoMetadata) ]
    [] input = "{\"context\":\"c\"}"
         -> [ ok |-> TRUE, value |->
                JObject(Absent, JString(<<"c">>), Absent, NoMetadata) ]
    [] input = "[1]"
         -> [ ok |-> TRUE, value |->
                JValue("array") ]
    [] input = "null"
         -> [ ok |-> TRUE, value |->
                JValue("null") ]
    [] input = "7"
         -> [ ok |-> TRUE, value |->
                JValue("number") ]
    [] input = "\"cat\""
         -> [ ok |-> TRUE, value |->
                JValue("string") ]
    [] input = "true"
         -> [ ok |-> TRUE, value |->
                JValue("boolean") ]
    [] OTHER -> [ ok |-> FALSE, value |-> JValue("null") ]

RECURSIVE BatchesOf(_)
BatchesOf(n) ==
  IF n = 0 THEN { << >> }
  ELSE LET shorter == BatchesOf(n - 1)
       IN  shorter \cup { Append(b, r) : b \in shorter, r \in RawStrings }

Batches == BatchesOf(MaxBatch)

\* Mutant of safeJSON: JSON.parse(input) without the try/catch.
safeJSONUncaught(input) ==
  LET parsed == JSONparse(input)
  IN  [ threw |-> ~parsed.ok, value |-> parsed.value ]

\* try { return JSON.parse(input) } catch { return null }
safeJSON(input) ==
  LET parsed == JSONparse(input)
  IN  [ threw |-> FALSE,
        value |-> IF parsed.ok THEN parsed.value ELSE JValue("null") ]

NoRecord ==
  [ some |-> FALSE, word |-> << >>, context |-> Absent,
    timestamp |-> Absent, metadata |-> NoMetadata ]

\* typeof x === "object" of a value that is not null
isObject(type) == type \in {"object", "array"}

\* coalesceWordRecord(raw): null, or the record with the trimmed word and
\* the well-typed optional fields.
coalesceWordRecord(raw) ==
  IF ~isObject(raw.t) THEN NoRecord
  ELSE IF raw.word.t # "string" \/ trim(raw.word.s) = << >> THEN NoRecord
  ELSE [ some      |-> TRUE,
         word      |-> trim(raw.word.s),
         context   |-> IF raw.context.t = "string" THEN raw.context
                                                   ELSE Absent,
         timestamp |-> IF raw.timestamp.t = "number" THEN raw.timestamp
                                                     ELSE Absent,
         metadata  |-> IF isObject(raw.metadata.t) THEN raw.metadata
                                                   ELSE NoMetadata ]

\* The strings among the elements of an array, in order.
RECURSIVE stringsOf(_)
stringsOf(items) ==
  IF items = << >> THEN << >>
  ELSE (IF Head(items).t = "string" THEN << Head(items).s >> ELSE << >>)
         \o stringsOf(Tail(items))

\* extractTags(metadata)
extractTags(metadata) ==
  IF metadata.t = "absent" THEN << >>
  ELSE (IF metadata.tagsIsArray THEN stringsOf(metadata.tags) ELSE << >>)
       \o (IF metadata.category.t = "string"
             THEN << <<"c","a","t","e","g","o","r","y",":">> \o metadata.category.s >>
             ELSE << >>)
       \o (IF metadata.type.t = "string"
             THEN << <<"t","y","p","e",":">> \o metadata.type.s >>
             ELSE << >>)

\* String.prototype.endsWith
endsWith(s, suf) ==
  Len(suf) <= Len(s) /\ SubSeq(s, Len(s) - Len(suf) + 1, Len(s)) = suf

\* heuristicSemanticTags(word): one tag per rule that the lower-cased word
\* meets, in the order of the rules.
heuristicSemanticTags(w) ==
  LET lower == toLowerCase(w)
      tagIf(cond, tag) == IF cond THEN << tag >> ELSE << >>
  IN  tagIf(endsWith(lower, <<"i","n","g">>),
            <<"v","e","r","b",":","p","r","o","g","r","e","s","s","i","v","e">>)
      \o tagIf(endsWith(lower, <<"e","d">>),
            <<"v","e","r","b",":","p","a","s","t">>)
      \o tagIf(endsWith(lower, <<"s">>) /\ ~endsWith(lower, <<"s","s">>),
            <<"v","e","r","b",":","t","h","i","r","d","-","p","e","r","s","o","n">>)
      \o tagIf(endsWith(lower, <<"n","e","s","s">>),
            <<"n","o","u","n",":","a","b","s","t","r","a","c","t">>)
      \o tagIf(endsWith(lower, <<"t","i","o","n">>) \/ endsWith(lower, <<"s","i","o","n">>),
            <<"n","o","u","n",":","a","c","t","i","o","n">>)
      \o tagIf(endsWith(lower, <<"i","t","y">>) \/ endsWith(lower, <<"a","b","i","l","i","t","y">>),
            <<"n","o","u","n",":","q","u","a","l","i","t","y">>)
      \o tagIf(endsWith(lower, <<"m","e","n","t">>),
            <<"n","o","u","n",":","r","e","s","u","l","t">>)
      \o tagIf(endsWith(lower, <<"a","b","l","e">>) \/ endsWith(lower, <<"i","b","l","e">>),
            <<"a","d","j",":","c","a","p","a","b","l","e">>)
      \o tagIf(endsWith(lower, <<"f","u","l">>),
            <<"a","d","j",":","f","u","l","l","-","o","f">>)
      \o tagIf(endsWith(lower, <<"l","e","s","s">>),
            <<"a","d","j",":","w","i","t","h","o","u","t">>)
      \o tagIf(endsWith(lower, <<"o","u","s">>) \/ endsWith(lower, <<"i","o","u","s">>),
            <<"a","d","j",":","c","h","a","r","a","c","t","e","r","i","z","e","d","-","b","y">>)
      \o tagIf(endsWith(lower, <<"i","v","e">>),
            <<"a","d","j",":","t","e","n","d","i","n","g","-","t","o">>)
      \o tagIf(endsWith(lower, <<"l","y">>),
            <<"a","d","v","e","r","b">>)
      \o tagIf(endsWith(lower, <<"e","r">>) /\ Len(lower) > 4,
            <<"c","o","m","p","a","r","a","t","i","v","e">>)
      \o tagIf(endsWith(lower, <<"e","s","t">>) /\ Len(lower) > 5,
            <<"s","u","p","e","r","l","a","t","i","v","e">>)


\* [...new Set(list)]: the first occurrence of every element, in order.
RECURSIVE dedupe(_, _)
dedupe(list, seen) ==
  IF list = << >> THEN << >>
  ELSE IF Head(list) \in seen THEN dedupe(Tail(list), seen)
  ELSE << Head(list) >> \o dedupe(Tail(list), seen \cup {Head(list)})

\* The body of if (record): the tags of the metadata joined with the
\* heuristic tags; metadata becomes {} when there was none, and gets the
\* joined tags when there are any.
enrich(record) ==
  LET existingTags == extractTags(record.metadata)
      heuristicTags == heuristicSemanticTags(record.word)
      metadata == IF record.metadata.t = "absent" THEN EmptyMetadata
                                                  ELSE record.metadata
      allTags == dedupe(existingTags \o heuristicTags, { })
  IN  [ record EXCEPT !.metadata =
          IF allTags # << >>
            THEN [ metadata EXCEPT
                     !.tagsIsArray = TRUE,
                     !.tags = [ k \in DOMAIN allTags |-> JString(allTags[k]) ] ]
            ELSE metadata ]

\* processWordBatch(rawBatch) is called: const records = []
ProcessWordBatch ==
  /\ batchPc = "idle"
  /\ \E batch \in Batches : rawBatch' = batch
  /\ records' = << >>
  /\ batchIndex' = 0
  /\ batchPc' = "loop"
  /\ UNCHANGED << analysisVars, loopVars >>

\* One iteration of for (const raw of rawBatch).
BatchEntry ==
  /\ batchPc = "loop"
  /\ batchIndex < Len(rawBatch)
  /\ LET parsed == safeJSON(rawBatch[batchIndex + 1])
         record == coalesceWordRecord(parsed.value)
     IN  IF parsed.threw
           THEN /\ batchPc' = "threw"
                /\ UNCHANGED << records, batchIndex >>
           ELSE /\ records' = IF record.some
                                THEN Append(records, enrich(record))
                                ELSE records
                /\ batchIndex' = batchIndex + 1
                /\ UNCHANGED batchPc
  /\ UNCHANGED << rawBatch, analysisVars, loopVars >>

\* The iterator is exhausted: return records.
BatchReturn ==
  /\ batchPc = "loop"
  /\ batchIndex = Len(rawBatch)
  /\ batchPc' = "returned"
  /\ UNCHANGED << rawBatch, records, batchIndex, analysisVars, loopVars >>

NextBatch ==
  \/ ProcessWordBatch
  \/ BatchEntry
  \/ BatchReturn

SpecBatch == Init /\ [][NextBatch]_vars

\* ---------------------------------------------------------- properties
Returned == pc \in {"done", "pushed"}

\* The stem fix changed the root of the call that has returned.
RepairFired ==
  /\ Returned
  /\ result.root # slice(result.word, totalLength(result.prefixes),
                         Len(result.word) - totalLength(result.suffixes))

\* C1: span/text fidelity. For every morpheme m of a returned result, the
\* substring of result.word from m.start to m.end equals m.text, also when
\* the stem fix has shortened the root.
SpanTextFidelity ==
  Returned =>
    \A k \in DOMAIN result.morphemes :
      LET m == result.morphemes[k]
      IN  slice(result.word, m.start, m.end) = m.text

\* C2: full coverage. The end of the last morpheme of a returned result
\* equals the length of result.word, also when the stem fix has fired.
FullCoverage ==
  Returned =>
    result.morphemes[Len(result.morphemes)].end = Len(result.word)

\* C3: contiguity. The first morpheme starts at index 0 and each morpheme's
\* end is the next morpheme's start.
Contiguity ==
  Returned =>
    /\ result.morphemes[1].start = 0
    /\ \A k \in 1..(Len(result.morphemes) - 1) :
         result.morphemes[k].end = result.morphemes[k + 1].start

ContiguityWitness ==
  /\ RepairFired
  /\ result.prefixes # << >>
  /\ Len(result.morphemes) >= 3

RECURSIVE concat(_)
concat(texts) ==
  IF texts = << >> THEN << >> ELSE Head(texts) \o concat(Tail(texts))

\* C4: span ordering. The morphemes are one prefix span per element of
\* result.prefixes, then exactly one root span whose text is result.root,
\* then one suffix span per element of result.suffixes; the prefixes stand
\* in the order they occupy at the start of the word and the suffixes in
\* the order they occupy at its end (the reverse of the strip order).
SpanOrdering ==
  Returned =>
    LET ms == result.morphemes
        np == Len(result.prefixes)
        ns == Len(result.suffixes)
    IN  /\ Len(ms) = np + 1 + ns
        /\ \A k \in 1..np :
             ms[k].type = "prefix" /\ ms[k].text = result.prefixes[k]
        /\ ms[np + 1].type = "root" /\ ms[np + 1].text = result.root
        /\ \A k \in 1..ns :
             /\ ms[np + 1 + k].type = "suffix"
             /\ ms[np + 1 + k].text = result.suffixes[k]
        /\ concat(result.prefixes)
             = slice(result.word, 0, totalLength(result.prefixes))
        /\ concat(result.suffixes)
             = slice(result.word,
                     Len(result.word) - totalLength(result.suffixes),
                     Len(result.word))

SpanOrderingWitness ==
  /\ Returned
  /\ Len(result.prefixes) >= 1
  /\ Len(result.suffixes) >= 2
  /\ result.suffixes[1] # result.suffixes[2]

\* C5: span lengths. Every morpheme of a returned result has
\* 0 <= start <= end and end - start = the length of its text, for the
\* empty word and for words on which the stem fix fires alike.
SpanLengths ==
  Returned =>
    \A k \in DOMAIN result.morphemes :
      LET m == result.morphemes[k]
      IN  /\ 0 <= m.start
          /\ m.start <= m.end
          /\ m.end - m.start = Len(m.text)

SpanLengthsWitness ==
  /\ RepairFired
  /\ \E k \in DOMAIN result.morphemes : result.morphemes[k].type = "suffix"

\* C6: label length. The label array built for a word has exactly as many
\* entries as the normalized word has characters.
LabelLength == pc = "pushed" => Len(labels) = Len(result.word)

LabelLengthWitness ==
  /\ pc = "pushed"
  /\ Len(result.morphemes) >= 3
  /\ Len(labels) >= 5

Range(f) == {f[k] : k \in DOMAIN f}

LabelLengthFailFast ==
  (pc = "bio" /\ \E k \in DOMAIN bioSpans : bioSpans[k].end > Len(bioWord))
    => bioResult.threw

\* C9: totality and empty input. A call never gets stuck before it returns,
\* and for an input whose normalized word is empty the result has no
\* prefixes, no suffixes, complexity 0 and exactly one morpheme, a root
\* span with text "", start 0 and end 0.
EmptyInput ==
  /\ pc \in {"prefixScan", "suffixScan", "stemFix", "assemble"}
       => ENABLED Next
  /\ (Returned /\ result.word = << >>) =>
       /\ result.prefixes = << >>
       /\ result.suffixes = << >>
       /\ result.complexity = 0
       /\ result.morphemes =
            << [type |-> "root", text |-> << >>, start |-> 0, end |-> 0] >>

EmptyInputWitness ==
  /\ Returned
  /\ result.word = << >>
  /\ result.original # << >>

\* C10: complexity and confidence. result.complexity is the number of
\* prefixes plus the number of suffixes, result.confidence is
\* 1 / (1 + complexity), so it is 1 exactly when no affix was stripped and
\* lies in (0, 1] otherwise.
ComplexityConfidence ==
  Returned =>
    LET c == result.confidence
    IN  /\ result.complexity = Len(result.prefixes) + Len(result.suffixes)
        /\ c.den > 0
        /\ c.num * (1 + result.complexity) = c.den
        /\ 0 < c.num /\ c.num <= c.den
        /\ (c.num = c.den)
             <=> (result.prefixes = << >> /\ result.suffixes = << >>)

ComplexityConfidenceWitness ==
  /\ Returned
  /\ result.prefixes # << >>
  /\ result.suffixes # << >>
  /\ result.complexity >= 3

\* The table entry s ends at index end of the word, whatever is left of it.
endsAt(s, end) ==
  /\ Len(s) <= end
  /\ SubSeq(word, end - Len(s) + 1, end) = s

\* The affix a step of the prefix phase, or of the suffix phase, stripped.
PrefixStripped == pc = "prefixScan" /\ foundPrefixes' # foundPrefixes

SuffixStripped == pc = "suffixScan" /\ foundSuffixes' # foundSuffixes

strippedPrefix == foundPrefixes'[Len(foundPrefixes')]

strippedSuffix == Head(foundSuffixes')

\* C13 as claimed: longest match wins. At every step of either phase the
\* affix stripped is the longest table entry that textually matches the
\* word at the cursor; no shorter affix is stripped where a longer table
\* entry also matches.
LongestMatchWins ==
  [][ /\ PrefixStripped =>
           \A i \in DOMAIN prefixes :
             startsWith(word, prefixes[i], consumedStart)
               => Len(prefixes[i]) <= Len(strippedPrefix)
      /\ SuffixStripped =>
           \A i \in DOMAIN suffixes :
             endsAt(suffixes[i], consumedEnd)
               => Len(suffixes[i]) <= Len(strippedSuffix) ]_vars

\* C13 as amended: in the prefix phase the affix stripped is the longest
\* table entry that textually matches at rootStart; in the suffix phase it
\* is the longest table entry that textually matches at rootEnd and starts
\* after index rootStart + 1 (the minimum-root guard), so a shorter suffix
\* is stripped where a longer one matches only if the longer one fails the
\* guard.
LongestAdmissibleMatchWins ==
  [][ /\ PrefixStripped =>
           /\ startsWith(word, strippedPrefix, consumedStart)
           /\ \A i \in DOMAIN prefixes :
                startsWith(word, prefixes[i], consumedStart)
                  => Len(prefixes[i]) <= Len(strippedPrefix)
      /\ SuffixStripped =>
           /\ endsAt(strippedSuffix, consumedEnd)
           /\ consumedEnd - Len(strippedSuffix) > consumedStart + 1
           /\ \A i \in DOMAIN suffixes :
                (/\ endsAt(suffixes[i], consumedEnd)
                 /\ consumedEnd - Len(suffixes[i]) > consumedStart + 1)
                  => Len(suffixes[i]) <= Len(strippedSuffix) ]_vars

NESS == <<"n","e","s","s">>

\* "ness" was stripped where "s" was admissible too, after a prefix.
LongestAdmissibleMatchWitness ==
  /\ pc = "suffixScan"
  /\ foundPrefixes # << >>
  /\ foundSuffixes # << >>
  /\ Head(foundSuffixes) = NESS

\* C14: termination of stripping. Every accepted prefix strictly increases
\* rootStart and every accepted suffix strictly decreases rootEnd, with
\* 0 <= rootStart <= len(word) and rootEnd <= len(word) throughout, so no
\* more than len(word) affixes are stripped and both loops halt.
StrippingProgress ==
  [][ /\ PrefixStripped => consumedStart' > consumedStart
      /\ SuffixStripped => consumedEnd' < consumedEnd
      /\ 0 <= consumedStart' /\ consumedStart' <= Len(word')
      /\ pc' \in {"suffixScan", "stemFix", "assemble", "done", "pushed"}
           => consumedEnd' <= Len(word')
      /\ Len(foundPrefixes') + Len(foundSuffixes') <= Len(word') ]_vars

StrippingProgressWitness ==
  /\ pc = "stemFix"
  /\ Len(foundPrefixes) >= 2
  /\ Len(foundSuffixes) >= 1

\* C15: minimum root length. For every non-empty normalized word the
\* returned root has at least one character: affix stripping never
\* consumes the whole word.
MinimumRootLength ==
  (Returned /\ result.word # << >>) => Len(result.root) >= 1

\* The tag name of a span type, as the label vocabulary spells it.
TagName(type) ==
  CASE type = "prefix" -> "PREFIX"
    [] type = "root"   -> "ROOT"
    [] type = "suffix" -> "SUFFIX"

FullTagNames ==
  pc = "bio" => Range(bioResult.labels) \subseteq Range(BIO_TAGS)

INTERNATIONALIZATION ==
  << "i", "n", "t", "e", "r", "n", "a", "t", "i", "o", "n",
     "a", "l", "i", "z", "a", "t", "i", "o", "n" >>

\* C18: multi-affix scenario. analyze('internationalization') returns
\* prefixes ['inter'] and suffixes ['ation', 'al', 'ize'].
MultiAffixScenario ==
  (Returned /\ result.original = INTERNATIONALIZATION) =>
    /\ result.prefixes = << <<"i", "n", "t", "e", "r">> >>
    /\ result.suffixes = << <<"a", "t", "i", "o", "n">>,
                            <<"a", "l">>,
                            <<"i", "z", "e">> >>

\* a < b for two confidences kept as fractions with positive denominators
lessConfidence(a, b) == a.num * b.den < b.num * a.den

\* C11: confidence monotonicity. Of any two analysis results, from any two
\* inputs, the one of lower complexity has the strictly higher confidence,
\* and results of equal complexity have equal confidence.
ConfidenceMonotone ==
  (pc = "done" /\ memo.set) =>
    LET a == memo.result
        b == result
    IN  /\ a.complexity < b.complexity
             => lessConfidence(b.confidence, a.confidence)
        /\ b.complexity < a.complexity
             => lessConfidence(a.confidence, b.confidence)
        /\ a.complexity = b.complexity
             => /\ ~lessConfidence(a.confidence, b.confidence)
                /\ ~lessConfidence(b.confidence, a.confidence)

\* Two results of different inputs, the later one of higher complexity.
ConfidenceMonotoneWitness ==
  /\ pc = "done"
  /\ memo.set
  /\ memo.original # original
  /\ memo.result.complexity >= 1
  /\ memo.result.complexity < result.complexity

\* C12: determinism, no carried state. In any sequence of calls on one
\* analyzer the result for a word is the same every time the word is
\* analyzed, whatever was analyzed before it or in between. (The sorted
\* tables are the definitions prefixes and suffixes: no step assigns them.)
Determinism ==
  (pc = "done" /\ memo.set /\ memo.original = original)
    => result = memo.result

\* A word with two affixes analyzed again after a different word.
DeterminismWitness ==
  /\ pc = "done"
  /\ memo.set
  /\ memo.between
  /\ memo.original = original
  /\ result.complexity >= 2

\* C19: stoppable loop, safety. Once control.stop() has been called update
\* is never invoked again; if update calls stop() during its k-th
\* invocation, update is invoked exactly k times in total.
StoppedLoopNoUpdate ==
  stopCalled => updates = updatesAtStop

\* update stopped the loop in a later invocation than the first and the
\* loop has gone through its remaining awaits and left.
StoppedLoopNoUpdateWitness ==
  /\ stopCalled
  /\ stoppedBy = "update"
  /\ updatesAtStop >= 2
  /\ render
  /\ loopPc = "exited"

\* C20: stoppable loop, liveness. After control.stop() the background loop
\* eventually leaves its while loop, given that the update and render
\* promises resolve and the timer fires (a rejection ends the background
\* function at once); a loop that was never stopped never leaves it.
StoppedLoopExits ==
  /\ stopCalled ~> (loopPc \in {"exited", "failed"})
  /\ [](loopPc = "exited" => stopCalled)

\* The caller stopped the loop while it slept and the loop left.
StoppedLoopExitsWitness ==
  /\ loopPc = "exited"
  /\ stoppedBy = "caller"
  /\ updatesAtStop >= 1

\* C21: reconstructible surface form. The texts of the morphemes of a
\* returned result, concatenated in order, give exactly result.word, and so
\* do result.prefixes, result.root and result.suffixes.
ReconstructibleSurfaceForm ==
  Returned =>
    /\ concat([k \in DOMAIN result.morphemes |-> result.morphemes[k].text])
         = result.word
    /\ concat(result.prefixes) \o result.root \o concat(result.suffixes)
         = result.word

\* C23: minimum root after suffix stripping. A returned result with a
\* non-empty suffix list has a root of at least 2 characters.
MinimumRootAfterSuffix ==
  (Returned /\ result.suffixes # << >>) => Len(result.root) >= 2

\* a is a prefix of b
isPrefixOf(a, b) == Len(a) <= Len(b) /\ a = SubSeq(b, 1, Len(a))

\* C24: stem repair touches only the root's tail. The step that applies
\* minimalStemFix leaves a root that is a prefix of the root before it, and
\* leaves rootStart, the prefix list and the suffix list as they were.
StemRepairFrame ==
  [][ pc = "stemFix" =>
        /\ isPrefixOf(root', root)
        /\ UNCHANGED << consumedStart, foundPrefixes, foundSuffixes >> ]_vars

\* A repair of a root that has an "e" before its final "e", under a prefix.
StemRepairFrameWitness ==
  /\ pc = "assemble"
  /\ foundPrefixes # << >>
  /\ Len(root) >= 2
  /\ \E k \in 1..(Len(root) - 1) : root[k] = "e"
  /\ slice(word, consumedStart, consumedStart + Len(root) + 1)
       = root \o <<"e">>
  /\ lastSuf = ING

\* C25: when stem repair fires. The root is shortened exactly when the last
\* element of the suffix list, the word-final suffix, is "ing" and the root
\* ends in "e", and then exactly that one "e" goes; the suffix next to the
\* root decides only when it is the only suffix.
StemRepairFires ==
  [][ pc = "stemFix" =>
        /\ (root' # root)
             <=> /\ foundSuffixes # << >>
                 /\ foundSuffixes[Len(foundSuffixes)] = ING
                 /\ root # << >>
                 /\ root[Len(root)] = "e"
        /\ (root' # root) => root = root' \o <<"e">> ]_vars

\* Two suffixes, the one next to the root is not "ing", the word-final one
\* is, and the repair has fired.
StemRepairFiresWitness ==
  /\ RepairFired
  /\ Len(result.suffixes) >= 2
  /\ result.suffixes[1] # ING
  /\ result.suffixes[Len(result.suffixes)] = ING

\* C27: the stem-repair clamp is unreachable. The repair changes the root
\* only after a suffix was stripped, from a root of at least 2 characters,
\* by exactly one character; consumedEnd - delta is never below
\* consumedStart, and consumedEnd - consumedStart is the root's length
\* before and after the repair.
ClampUnreachable ==
  [][ pc = "stemFix" =>
        /\ consumedEnd - consumedStart = Len(root)
        /\ consumedEnd' - consumedStart' = Len(root')
        /\ (root' # root) =>
             /\ foundSuffixes # << >>
             /\ Len(root) >= 2
             /\ Len(root') = Len(root) - 1
             /\ consumedEnd - (Len(root) - Len(root')) >= consumedStart
             /\ consumedEnd' = consumedEnd - 1 ]_vars

\* A repair of a root of exactly 2 characters, the shortest the guard lets
\* through.
ClampUnreachableWitness ==
  /\ RepairFired
  /\ Len(result.root) = 1
  /\ result.prefixes # << >>

\* C28: every character is labelled. No entry of the label array built from
\* a word's analysis is O.
EveryCharacterLabelled ==
  pc = "pushed" => "O" \notin Range(labels)

\* C26: update/render ordering in runLoop. render is invoked only when the
\* frame's update has completed, the next update only when the frame's
\* render and throttle wait have completed; never are two callbacks in
\* flight, and the invocations alternate, update first.
UpdateRenderOrdering ==
  /\ Cardinality(inFlight) <= 1
  /\ loopPc = "awaitUpdate" => inFlight = {"update"}
  /\ loopPc = "awaitRender" => inFlight = {"render"}
  /\ loopPc \in {"sleeping", "exited", "failed"} => inFlight = { }
  /\ render =>
       /\ loopPc = "awaitUpdate" => updates = renders + 1
       /\ loopPc \in {"awaitRender", "sleeping", "exited"}
            => updates = renders
       /\ renders <= updates /\ updates <= renders + 1
  /\ ~render => renders = 0

\* The third frame's render is in flight.
UpdateRenderOrderingWitness ==
  /\ render
  /\ loopPc = "awaitRender"
  /\ renders = 3
  /\ updates = 3

\* An entry the claim says is kept: valid JSON, an object, with a string
\* field word that has a character other than white space.
keptEntry(raw) ==
  LET parsed == JSONparse(raw)
  IN  /\ parsed.ok
      /\ parsed.value.t = "object"
      /\ parsed.value.word.t = "string"
      /\ \E k \in DOMAIN parsed.value.word.s :
           parsed.value.word.s[k] \notin WhiteSpace

\* w is s without the white space at its two ends, and is not empty.
isTrimmed(w, s) ==
  /\ w # << >>
  /\ w[1] \notin WhiteSpace
  /\ w[Len(w)] \notin WhiteSpace
  /\ \E a \in 0..Len(s) :
       /\ a + Len(w) <= Len(s)
       /\ SubSeq(s, a + 1, a + Len(w)) = w
       /\ \A k \in (1..a) \cup ((a + Len(w) + 1)..Len(s)) :
            s[k] \in WhiteSpace

\* The kept entries of a batch, in order.
RECURSIVE keptOf(_)
keptOf(batch) ==
  IF batch = << >> THEN << >>
  ELSE (IF keptEntry(Head(batch)) THEN << Head(batch) >> ELSE << >>)
         \o keptOf(Tail(batch))

\* C22: ingestion does not explode. processWordBatch never throws; what it
\* returns has one record per entry that is valid JSON, an object and has a
\* non-blank string word, in input order, with the trimmed word; every
\* other entry is skipped, and the output is no longer than the input.
IngestionDoesNotExplode ==
  /\ batchPc # "threw"
  /\ batchPc = "returned" =>
       LET kept == keptOf(rawBatch)
       IN  /\ Len(records) = Len(kept)
           /\ Len(records) <= Len(rawBatch)
           /\ \A k \in DOMAIN records :
                isTrimmed(records[k].word, JSONparse(kept[k]).value.word.s)

\* A returned batch of two entries: the first is not JSON and is skipped,
\* the second gives a record whose word lost its surrounding blanks.
IngestionDoesNotExplodeWitness ==
  /\ batchPc = "returned"
  /\ Len(rawBatch) = 2
  /\ ~JSONparse(rawBatch[1]).ok
  /\ Len(records) = 1
  /\ records[1].word # JSONparse(rawBatch[2]).value.word.s

====
